---- MODULE Spec2Model ----
(***************************************************************************)
(* Model of script.py: the polling loop that copies seeding limits from an *)
(* original torrent to its cross-seeded duplicates through the torrent     *)
(* client's HTTP API, with an expiring cache file of processed torrents.   *)
(*                                                                         *)
(* Time is counted in minutes for datetime.now() and the cache, in seconds *)
(* for the added_on epoch values, as in the program.                       *)
(***************************************************************************)
EXTENDS Integers, Sequences, FiniteSets, TLC

VARIABLES
    pc,                   \* position of the process in script.py
    DRY_RUN,              \* line 26
    CACHE_EXPIRY_DAYS,    \* line 24
    SCHEDULE,             \* line 27
    utcoffset,            \* offset of the process's local zone, in seconds
    file,                 \* content of torrent_cache.json
    cache,                \* main(): cache
    updated,              \* main(): updated
    tagIdx,               \* main(): position of tag_name in TAG_NAMES
    cross_seed_torrents,  \* main(): cross_seed_torrents
    torIdx,               \* main(): position of torrent in cross_seed_torrents
    original_torrents,    \* main(): original_torrents
    candIdx,              \* main(): position of original_torrent
    now,                  \* datetime.now(), in minutes
    calls,                \* requests sent (and dry-run prints) in this cycle
    notices,              \* tags after which "No torrents updated" was printed
    cycles,               \* number of main() runs started
    faults,               \* number of failed requests so far
    calc,                 \* get_time_difference: last arguments and result
    dry_recorded,         \* torrents whose cache entry a dry run wrote last
    cache_type            \* main(): type of cache, "dict" or "list"

vars == <<pc, DRY_RUN, CACHE_EXPIRY_DAYS, SCHEDULE, utcoffset, file, cache,
          updated, tagIdx, cross_seed_torrents, torIdx, original_torrents,
          candIdx, now, calls, notices, cycles, faults, calc, dry_recorded,
          cache_type>>

----------------------------------------------------------------------------
(* Bounds of the model *)

MaxCycles == 3      \* main() runs explored
MaxFaults == 1      \* failed requests explored
MaxAddedOn == 90    \* get_time_difference: added_on values 0..MaxAddedOn
MaxLimit == 3       \* get_time_difference: limits -2..MaxLimit

(* Program constants *)

MinutesPerDay == 1440

----------------------------------------------------------------------------
(* The torrent client: the torrents it holds, in the order it lists them.  *)
(* category is the dot-delimited string, kept as its segments; ratio_limit *)
(* is <<>> when the record has no such key.                                *)

Torrent(h, n, c, a, s, r, t) ==
    [hash |-> h, name |-> n, category |-> c, added_on |-> a,
     seeding_time_limit |-> s, ratio_limit |-> r, tags |-> t]

Torrents ==
    << Torrent("c1", "Foo", <<"movies", "cross-seed">>, 1000, -2, <<-2>>,
               {"cross-seed", "extra"}),
       Torrent("o0", "foo", <<"movies">>, 0, 5, <<1>>, {}),
       Torrent("o1", "Foo", <<"movies">>, 500, 50, <<2>>, {}),
       Torrent("c2", "Bar", <<"tv", "cross-seed">>, 120, -2, <<-2>>,
               {"cross-seed"}),
       Torrent("o2a", "Bar", <<"tv">>, 60, 10, <<3>>, {}),
       Torrent("o2b", "Bar", <<"tv">>, 0, 20, <<>>, {}),
       Torrent("c3", "Baz", <<"tv", "x">>, 200, -2, <<-2>>,
               {"cross-seed", "extra"}),
       Torrent("o3", "Baz", <<"movies">>, 100, 30, <<1>>, {}),
       Torrent("c4", "Qux", <<"movies">>, 100, -1, <<-1>>, {"cross-seed"}),
       Torrent("o4", "Qux", <<"movies">>, 400, -1, <<4>>, {}) >>

TAG_NAMES == <<"cross-seed", "extra">>

Hashes == {Torrents[i].hash : i \in DOMAIN Torrents}

TorrentOf(h) == CHOOSE t \in {Torrents[i] : i \in DOMAIN Torrents} : t.hash = h

(* A response body, or None *)
None == [isNone |-> TRUE, list |-> <<>>]
Some(l) == [isNone |-> FALSE, list |-> l]

(* GET torrents/info?tag=... and ?category=... as the client answers them *)
TorrentsWithTag(tag_name) ==
    SelectSeq(Torrents, LAMBDA t : tag_name \in t.tags)

TorrentsInCategory(category_name) ==
    SelectSeq(Torrents, LAMBDA t : t.category = <<category_name>>)

----------------------------------------------------------------------------
(* Pure functions of script.py *)

(* datetime.fromtimestamp: the naive local time of an epoch value *)
fromtimestamp(epoch) == epoch + utcoffset

(* Python's round() of seconds / 60: to nearest, ties to the even integer *)
round_minutes(seconds) ==
    LET q == seconds \div 60
        r == seconds % 60
    IN  IF r < 30 THEN q
        ELSE IF r > 30 THEN q + 1
        ELSE IF q % 2 = 0 THEN q ELSE q + 1

get_time_difference_naive(original_added_on, cross_added_on, seeding_time_limit) ==
    IF seeding_time_limit <= 0 THEN -1 ELSE seeding_time_limit

get_time_difference_floor(original_added_on, cross_added_on, seeding_time_limit) ==
    LET time == fromtimestamp(original_added_on)
        new_time == time + 60 * seeding_time_limit
        cross_time == fromtimestamp(cross_added_on)
        minutes_diff == (new_time - cross_time) \div 60
    IN  IF minutes_diff < 0 THEN -1 ELSE minutes_diff

get_time_difference(original_added_on, cross_added_on, seeding_time_limit) ==
    LET time == fromtimestamp(original_added_on)
        new_time == time + 60 * seeding_time_limit
        cross_time == fromtimestamp(cross_added_on)
        time_diff == new_time - cross_time
        minutes_diff == round_minutes(time_diff)
    IN  IF minutes_diff <= 0 THEN -1 ELSE minutes_diff

(* datetime.isoformat / datetime.fromisoformat of a cache timestamp *)
isoformat(t) == <<"iso", t>>
fromisoformat(s) == s[2]

is_torrent_cached_never(torrent_hash, c) == FALSE

is_torrent_cached_le(torrent_hash, c) ==
    /\ torrent_hash \in DOMAIN c
    /\ now <= fromisoformat(c[torrent_hash]) + CACHE_EXPIRY_DAYS * MinutesPerDay

is_torrent_cached(torrent_hash, c) ==
    IF torrent_hash \in DOMAIN c
    THEN LET cached_time == fromisoformat(c[torrent_hash])
         IN  IF now < cached_time + CACHE_EXPIRY_DAYS * MinutesPerDay
             THEN TRUE ELSE FALSE
    ELSE FALSE

Put_forget(c, torrent_hash) == c

Put_only(c, torrent_hash) == [h \in {torrent_hash} |-> isoformat(now)]

(* cache[torrent_hash] = datetime.now().isoformat() *)
Put(c, torrent_hash) ==
    [h \in DOMAIN c \cup {torrent_hash} |->
        IF h = torrent_hash THEN isoformat(now) ELSE c[h]]

EmptyCache == [h \in {} |-> isoformat(0)]

(* The cache file: missing, not JSON, a JSON array ([]), or a JSON object *)
Missing == [kind |-> "missing", json |-> EmptyCache]
NotJson == [kind |-> "invalid", json |-> EmptyCache]
JsonArray == [kind |-> "array", json |-> EmptyCache]
JsonFile(c) == [kind |-> "object", json |-> c]

(* A value of the JSON object that is a string but no ISO-8601 timestamp *)
NotIso == <<"text", 0>>

(* read_cache: {} for a missing or undecodable file, else whatever         *)
(* json.load returns: the dict of an object, the (empty) list of []        *)
read_cache ==
    IF file.kind = "missing" THEN EmptyCache
    ELSE IF file.kind = "invalid" THEN EmptyCache
    ELSE file.json

read_cache_type_dict == "dict"

read_cache_type == IF file.kind = "array" THEN "list" ELSE "dict"

(* is_torrent_cached, line 56: fromisoformat raises ValueError *)
is_torrent_cached_raises(torrent_hash, c) ==
    torrent_hash \in DOMAIN c /\ c[torrent_hash][1] # "iso"

write_cache_deferred(c) == file

write_cache(c) == JsonFile(c)

----------------------------------------------------------------------------
(* Requests.  A request ends with an OK response ("ok"), a non-OK response *)
(* ("fail") or a RequestException ("error").                               *)

Call(op, key, for, seed_time, ratio, orig, tag, outcome) ==
    [op |-> op, key |-> key, for |-> for, seed_time |-> seed_time,
     ratio |-> ratio, orig |-> orig, tag |-> tag, outcome |-> outcome]

Outcomes == IF faults < MaxFaults THEN {"ok", "fail", "error"} ELSE {"ok"}

Faulted(outcome) == faults + (IF outcome = "ok" THEN 0 ELSE 1)

(* get_torrents_by_tag / get_torrents_by_category: the list, or None *)
get_torrents_by_tag(tag_name, outcome) ==
    IF outcome = "ok" THEN Some(TorrentsWithTag(tag_name)) ELSE None

get_torrents_by_category(category_name, outcome) ==
    IF outcome = "ok" THEN Some(TorrentsInCategory(category_name)) ELSE None

(* set_torrent_seed_limits: what it does for each way the call can go.     *)
(* "dry" is the dry-run print, without a request.                          *)
set_torrent_seed_limits_always_post(dry_run) == Outcomes

set_torrent_seed_limits(dry_run) ==
    IF dry_run THEN {"dry"} ELSE Outcomes

(* original_torrent["name"] != torrent["name"] *)
name_differs_never(original_torrent, torrent) == FALSE

name_differs(original_torrent, torrent) ==
    original_torrent.name # torrent.name

original_category_of_configured(torrent) == "movies"

(* torrent["category"].split(".")[0] *)
original_category_of(torrent) == torrent.category[1]

ratio_limit_of_default0(original_torrent) ==
    IF original_torrent.ratio_limit = <<>> THEN 0
    ELSE original_torrent.ratio_limit[1]

(* original_torrent.get("ratio_limit", -1) *)
ratio_limit_of(original_torrent) ==
    IF original_torrent.ratio_limit = <<>> THEN -1
    ELSE original_torrent.ratio_limit[1]

NoCalc == [called |-> FALSE, original_added_on |-> 0, cross_added_on |-> 0,
           seeding_time_limit |-> 0, result |-> 0]

Calc(o, c, l) == [called |-> TRUE, original_added_on |-> o, cross_added_on |-> c,
                  seeding_time_limit |-> l, result |-> get_time_difference(o, c, l)]

tag_name == TAG_NAMES[tagIdx]
torrent == cross_seed_torrents.list[torIdx]
original_torrent == original_torrents.list[candIdx]

----------------------------------------------------------------------------
(* The process *)

ExpiryDaysChoices == {0, 1}
ScheduleChoices == {-1, 0, 720}
LaunchDelays == {0, 720}
InitialFiles ==
    { Missing, NotJson,
      JsonFile([h \in {"c2", "c4", "gone"} |->
                   IF h = "c4" THEN isoformat(720) ELSE isoformat(0)]) }

Init ==
    /\ pc = "login"
    /\ DRY_RUN \in BOOLEAN
    /\ CACHE_EXPIRY_DAYS \in ExpiryDaysChoices
    /\ SCHEDULE \in ScheduleChoices
    /\ utcoffset = 0
    /\ file \in InitialFiles
    /\ cache = EmptyCache
    /\ updated = FALSE
    /\ tagIdx = 1
    /\ cross_seed_torrents = None
    /\ torIdx = 1
    /\ original_torrents = None
    /\ candIdx = 1
    /\ now = MinutesPerDay
    /\ calls = <<>>
    /\ notices = <<>>
    /\ cycles = 0
    /\ faults = 0
    /\ calc = NoCalc
    /\ dry_recorded = {}
    /\ cache_type = "dict"

config == <<DRY_RUN, CACHE_EXPIRY_DAYS, SCHEDULE, utcoffset>>

(* main(), line 165: qb_login; nothing depends on how it went *)
Login ==
    /\ pc = "login"
    /\ \E outcome \in Outcomes :
          /\ calls' = <<Call("login", "", "", 0, 0, "", "", outcome)>>
          /\ faults' = Faulted(outcome)
    /\ notices' = <<>>
    /\ cycles' = cycles + 1
    /\ pc' = "read_cache"
    /\ UNCHANGED <<config, dry_recorded, cache_type, file, cache, updated, tagIdx, cross_seed_torrents,
                   torIdx, original_torrents, candIdx, now, calc>>

(* main(), lines 166-168 *)
ReadCache ==
    /\ pc = "read_cache"
    /\ cache' = read_cache
    /\ cache_type' = read_cache_type
    /\ updated' = FALSE
    /\ tagIdx' = 1
    /\ pc' = "tags"
    /\ UNCHANGED <<config, dry_recorded, file, cross_seed_torrents, torIdx, original_torrents,
                   candIdx, now, calls, notices, cycles, faults, calc>>

(* main(), lines 169-172: the next tag_name and its fetch *)
NextTag ==
    /\ pc = "tags"
    /\ IF tagIdx > Len(TAG_NAMES)
       THEN /\ pc' = "returned"
            /\ UNCHANGED <<cross_seed_torrents, torIdx, calls, faults>>
       ELSE \E outcome \in Outcomes :
               LET got == get_torrents_by_tag(tag_name, outcome) IN
               /\ cross_seed_torrents' = got
               /\ calls' = Append(calls, Call("tag", tag_name, "", 0, 0, "",
                                              tag_name, outcome))
               /\ faults' = Faulted(outcome)
               /\ torIdx' = 1
               /\ pc' = IF ~got.isNone /\ Len(got.list) > 0
                        THEN "torrents" ELSE "tag_end"
    /\ UNCHANGED <<config, dry_recorded, cache_type, file, cache, updated, tagIdx, original_torrents,
                   candIdx, now, notices, cycles, calc>>

(* main(), lines 173-184: the next torrent of the tag; the cache check,    *)
(* then the fetch of its base category.  Iterating over None (line 185)    *)
(* raises TypeError, which nothing catches: the process ends.  So does the *)
(* ValueError of fromisoformat in is_torrent_cached.                       *)
NextTorrent ==
    /\ pc = "torrents"
    /\ IF torIdx > Len(cross_seed_torrents.list)
       THEN /\ pc' = "tag_end"
            /\ UNCHANGED <<torIdx, original_torrents, candIdx, calls, faults>>
       ELSE IF is_torrent_cached_raises(torrent.hash, cache)
       THEN /\ pc' = "crashed"
            /\ UNCHANGED <<torIdx, original_torrents, candIdx, calls, faults>>
       ELSE IF is_torrent_cached(torrent.hash, cache)
       THEN /\ torIdx' = torIdx + 1
            /\ pc' = "torrents"
            /\ UNCHANGED <<original_torrents, candIdx, calls, faults>>
       ELSE \E outcome \in Outcomes :
               LET original_category == original_category_of(torrent)
                   got == get_torrents_by_category(original_category, outcome)
               IN  /\ original_torrents' = got
                   /\ calls' = Append(calls, Call("category", original_category,
                                          torrent.hash, 0, 0, "", tag_name, outcome))
                   /\ faults' = Faulted(outcome)
                   /\ candIdx' = 1
                   /\ pc' = IF got.isNone THEN "crashed" ELSE "originals"
                   /\ UNCHANGED torIdx
    /\ UNCHANGED <<config, dry_recorded, cache_type, file, cache, updated, tagIdx, cross_seed_torrents,
                   now, notices, cycles, calc>>

(* main(), lines 185-203: the next original_torrent of the category; on a  *)
(* name match, get_time_difference, set_torrent_seed_limits, cache_torrent *)
(* (whose item assignment, line 64, raises TypeError on a list).           *)
NextOriginal ==
    /\ pc = "originals"
    /\ IF candIdx > Len(original_torrents.list)
       THEN /\ torIdx' = torIdx + 1
            /\ pc' = "torrents"
            /\ UNCHANGED <<candIdx, calls, faults, cache, file, updated, calc,
                           dry_recorded>>
       ELSE IF name_differs(original_torrent, torrent)
       THEN /\ candIdx' = candIdx + 1
            /\ pc' = "originals"
            /\ UNCHANGED <<torIdx, calls, faults, cache, file, updated, calc,
                           dry_recorded>>
       ELSE \E outcome \in set_torrent_seed_limits(DRY_RUN) :
               LET c == Calc(original_torrent.added_on, torrent.added_on,
                             original_torrent.seeding_time_limit)
               IN  /\ calc' = c
                   /\ calls' = Append(calls,
                          Call(IF outcome = "dry" THEN "dryRunPrint"
                                                  ELSE "setShareLimits",
                               torrent.hash, torrent.hash, c.result,
                               ratio_limit_of(original_torrent),
                               original_torrent.hash, tag_name, outcome))
                   /\ faults' = Faulted(IF outcome = "dry" THEN "ok" ELSE outcome)
                   /\ IF cache_type = "list"
                      THEN /\ pc' = "crashed"
                           /\ UNCHANGED <<cache, file, updated, dry_recorded,
                                          candIdx>>
                      ELSE /\ cache' = Put(cache, torrent.hash)
                           /\ file' = write_cache(cache')
                           /\ updated' = TRUE
                           /\ dry_recorded' = IF outcome = "dry"
                                      THEN dry_recorded \cup {torrent.hash}
                                      ELSE dry_recorded \ {torrent.hash}
                           /\ candIdx' = candIdx + 1
                           /\ pc' = "originals"
                   /\ UNCHANGED torIdx
    /\ UNCHANGED <<config, cache_type, tagIdx, cross_seed_torrents,
                   original_torrents, now, notices, cycles>>

TagEnd_reset ==
    /\ pc = "tag_end"
    /\ notices' = IF ~updated THEN Append(notices, tag_name) ELSE notices
    /\ updated' = FALSE
    /\ tagIdx' = tagIdx + 1
    /\ pc' = "tags"
    /\ UNCHANGED <<config, dry_recorded, cache_type, file, cache,
                   cross_seed_torrents, torIdx, original_torrents, candIdx,
                   now, calls, cycles, faults, calc>>

(* main(), lines 204-205 *)
TagEnd ==
    /\ pc = "tag_end"
    /\ notices' = IF ~updated THEN Append(notices, tag_name) ELSE notices
    /\ tagIdx' = tagIdx + 1
    /\ pc' = "tags"
    /\ UNCHANGED <<config, dry_recorded, cache_type, file, cache, updated, cross_seed_torrents, torIdx,
                   original_torrents, candIdx, now, calls, cycles, faults, calc>>

Return_ge ==
    /\ pc = "returned"
    /\ pc' = IF SCHEDULE >= 0 THEN "sleep" ELSE "exited"
    /\ UNCHANGED <<config, dry_recorded, cache_type, file, cache, updated,
                   tagIdx, cross_seed_torrents, torIdx, original_torrents,
                   candIdx, now, calls, notices, cycles, faults, calc>>

(* lines 209-215: after main() returns *)
Return ==
    /\ pc = "returned"
    /\ pc' = IF SCHEDULE > 0 THEN "sleep" ELSE "exited"
    /\ UNCHANGED <<config, dry_recorded, cache_type, file, cache, updated, tagIdx, cross_seed_torrents,
                   torIdx, original_torrents, candIdx, now, calls, notices,
                   cycles, faults, calc>>

(* line 213: time.sleep(SCHEDULE * 60), then the next main() *)
Sleep ==
    /\ pc = "sleep"
    /\ cycles < MaxCycles
    /\ now' = now + SCHEDULE
    /\ pc' = "login"
    /\ UNCHANGED <<config, dry_recorded, cache_type, file, cache, updated, tagIdx, cross_seed_torrents,
                   torIdx, original_torrents, candIdx, calls, notices, cycles,
                   faults, calc>>

(* The script is started again after it ended, at once or later, with      *)
(* DRY_RUN as the environment then sets it (line 26); the file is kept.    *)
Launch ==
    /\ pc \in {"exited", "crashed"}
    /\ cycles < MaxCycles
    /\ DRY_RUN' \in BOOLEAN
    /\ \E d \in LaunchDelays : now' = now + d
    /\ pc' = "login"
    /\ cache' = EmptyCache
    /\ updated' = FALSE
    /\ tagIdx' = 1
    /\ cross_seed_torrents' = None
    /\ torIdx' = 1
    /\ original_torrents' = None
    /\ candIdx' = 1
    /\ cache_type' = "dict"
    /\ UNCHANGED <<CACHE_EXPIRY_DAYS, SCHEDULE, utcoffset, file, calls, notices,
                   cycles, faults, calc, dry_recorded>>

Next ==
    \/ Login
    \/ ReadCache
    \/ NextTag
    \/ NextTorrent
    \/ NextOriginal
    \/ TagEnd
    \/ Return
    \/ Sleep
    \/ Launch

Spec == Init /\ [][Next]_vars

(* The same process started on a cache file of any content *)
AnyFiles ==
    { Missing, NotJson, JsonArray,
      JsonFile([h \in {"c2", "gone"} |->
                   IF h = "c2" THEN NotIso ELSE isoformat(0)]) }

LoadInit ==
    /\ pc = "login"
    /\ DRY_RUN \in BOOLEAN
    /\ CACHE_EXPIRY_DAYS \in ExpiryDaysChoices
    /\ SCHEDULE \in ScheduleChoices
    /\ utcoffset = 0
    /\ file \in AnyFiles
    /\ cache = EmptyCache
    /\ updated = FALSE
    /\ tagIdx = 1
    /\ cross_seed_torrents = None
    /\ torIdx = 1
    /\ original_torrents = None
    /\ candIdx = 1
    /\ now = MinutesPerDay
    /\ calls = <<>>
    /\ notices = <<>>
    /\ cycles = 0
    /\ faults = 0
    /\ calc = NoCalc
    /\ dry_recorded = {}
    /\ cache_type = "dict"

LoadSpec == LoadInit /\ [][Next]_vars

----------------------------------------------------------------------------
(* get_time_difference on its own: every call with arguments from the      *)
(* sets below, in a zone of either offset.                                 *)

AddedOnValues == (0 .. MaxAddedOn) \cup {500, 1000, 6000}
LimitValues == (-2 .. MaxLimit) \cup {50, 100}
ZoneOffsets == {0, 3600}

CalcInit ==
    /\ pc = "calc"
    /\ DRY_RUN = FALSE
    /\ CACHE_EXPIRY_DAYS = 14
    /\ SCHEDULE = 30
    /\ utcoffset \in ZoneOffsets
    /\ file = Missing
    /\ cache = EmptyCache
    /\ updated = FALSE
    /\ tagIdx = 1
    /\ cross_seed_torrents = None
    /\ torIdx = 1
    /\ original_torrents = None
    /\ candIdx = 1
    /\ now = MinutesPerDay
    /\ calls = <<>>
    /\ notices = <<>>
    /\ cycles = 0
    /\ faults = 0
    /\ calc = NoCalc
    /\ dry_recorded = {}
    /\ cache_type = "dict"

CalcApply ==
    /\ pc = "calc"
    /\ ~calc.called
    /\ \E o \in AddedOnValues, c \in AddedOnValues, l \in LimitValues :
          calc' = Calc(o, c, l)
    /\ UNCHANGED <<config, dry_recorded, cache_type, pc, file, cache, updated, tagIdx,
                   cross_seed_torrents, torIdx, original_torrents, candIdx,
                   now, calls, notices, cycles, faults>>

CalcSpec == CalcInit /\ [][CalcApply]_vars

----------------------------------------------------------------------------
(* Properties *)

Last(s) == s[Len(s)]

(* This step sent a request or printed a dry-run line *)
Called == Len(calls') = Len(calls) + 1

IsSet(c) == c.op = "setShareLimits"
IsApply(c) == c.op \in {"setShareLimits", "dryRunPrint"}

(* The first torrent of T's base category that has T's name *)
Namesakes(T) ==
    LET l == TorrentsInCategory(original_category_of(T))
    IN  {i \in DOMAIN l : l[i].name = T.name}

FirstNamesake(T) ==
    LET l == TorrentsInCategory(original_category_of(T))
    IN  l[CHOOSE i \in Namesakes(T) : \A j \in Namesakes(T) : i <= j]

(* C1: a failed request never ends the cycle early: after a request that   *)
(* failed, the process is still inside main() or past its end, never dead  *)
(* of an exception.                                                        *)
C1_FailureNeverAborts ==
    (calls # <<>> /\ Last(calls).outcome \in {"fail", "error"})
        => pc # "crashed"

(* C2: of several same-named torrents of the category only the first is    *)
(* used: every set-limits request for T is derived from the first one, and *)
(* T gets one such request per processing.                                 *)
C2_OnlyFirstMatchUsed ==
    \A i \in DOMAIN calls :
        IsSet(calls[i]) =>
            /\ calls[i].orig = FirstNamesake(TorrentOf(calls[i].for)).hash
            /\ \A j \in DOMAIN calls :
                  (IsSet(calls[j]) /\ calls[j].for = calls[i].for
                                   /\ calls[j].tag = calls[i].tag) => j = i

(* C3: with dry-run off, a set-limits request that failed leaves the cache *)
(* and its file as they were: no entry is recorded for the torrent.        *)
C3_FailedSyncNotCached ==
    [][(Called /\ IsSet(Last(calls')) /\ Last(calls').outcome # "ok")
          => (cache' = cache /\ file' = file)]_vars

(* Nearest whole number of minutes to s seconds *)
IsRounded(m, s) ==
    \/ (60 * m - s < 30 /\ s - 60 * m < 30)
    \/ ((60 * m - s = 30 \/ s - 60 * m = 30) /\ m % 2 = 0)

CalcSeconds == calc.original_added_on + 60 * calc.seeding_time_limit
                  - calc.cross_added_on

Window == CACHE_EXPIRY_DAYS * MinutesPerDay

FreshIn(c, h) == h \in DOMAIN c /\ now < fromisoformat(c[h]) + Window

SetFor(h) == Called /\ IsSet(Last(calls')) /\ Last(calls').for = h

Matching ==
    /\ pc = "originals"
    /\ candIdx <= Len(original_torrents.list)
    /\ original_torrent.name = torrent.name

DryRunWritesNothing ==
    /\ DRY_RUN => ~(Called /\ IsSet(Last(calls')))
    /\ (DRY_RUN /\ Matching) =>
          /\ torrent.hash \in DOMAIN cache'
          /\ cache'[torrent.hash] = isoformat(now)
          /\ file' = JsonFile(cache')

(* C6, as claimed: a dry run sends no set-limits request and still records *)
(* the cache entry, and a run started at once after it, dry or not, sends  *)
(* no set-limits request for that torrent (here: in runs where no request  *)
(* has failed).                                                            *)
C6_ImmediateRerunSkips ==
    [][/\ DryRunWritesNothing
       /\ \A h \in dry_recorded :
             (/\ faults = 0
              /\ h \in DOMAIN file.json
              /\ fromisoformat(file.json[h]) = now) => ~SetFor(h)]_vars

(* C6, amended: a dry run sends no set-limits request and still records    *)
(* the cache entry; while that entry is fresh (which it never is with an   *)
(* expiry window of 0 days), no run, dry or not, sends a set-limits        *)
(* request for that torrent.                                               *)
C6_DryRun ==
    [][/\ DryRunWritesNothing
       /\ \A h \in dry_recorded : FreshIn(file.json, h) => ~SetFor(h)]_vars

C6_Witness ==
    /\ pc = "returned"
    /\ cycles >= 2
    /\ ~DRY_RUN
    /\ "c1" \in dry_recorded
    /\ FreshIn(file.json, "c1")
    /\ \E i \in DOMAIN calls : calls[i].op = "tag" /\ calls[i].outcome = "ok"
                                  /\ calls[i].key = "cross-seed"
    /\ \A i \in DOMAIN calls : calls[i].for # "c1"

Ids == Hashes \cup {"gone"}

(* C7: is_torrent_cached(id, cache) is true exactly when the cache has an  *)
(* entry for id and now - timestamp < expiry window; it is false at        *)
(* now = timestamp + window, and always false with a window of 0 days.     *)
C7_Freshness ==
    \A h \in Ids :
        /\ is_torrent_cached(h, cache) <=>
              (h \in DOMAIN cache /\ now - fromisoformat(cache[h]) < Window)
        /\ (h \in DOMAIN cache /\ now = fromisoformat(cache[h]) + Window)
              => ~is_torrent_cached(h, cache)
        /\ CACHE_EXPIRY_DAYS = 0 => ~is_torrent_cached(h, cache)

C7_Witness ==
    /\ CACHE_EXPIRY_DAYS > 0
    /\ pc = "torrents"
    /\ torIdx <= Len(cross_seed_torrents.list)
    /\ torrent.hash \in DOMAIN cache
    /\ now = fromisoformat(cache[torrent.hash]) + Window

NoNamesake ==
    /\ pc = "originals"
    /\ \A i \in DOMAIN original_torrents.list :
          original_torrents.list[i].name # torrent.name

(* C8: while a torrent without a same-named torrent in the fetched         *)
(* category is processed, no request is sent, the cache and its file stay  *)
(* as they are, the process does not end, and after the last candidate     *)
(* the loop moves to the next torrent of the tag.                          *)
C8_NoMatchSkips ==
    [][NoNamesake =>
          /\ calls' = calls
          /\ cache' = cache
          /\ file' = file
          /\ pc' \in {"originals", "torrents"}
          /\ candIdx > Len(original_torrents.list) =>
                /\ pc' = "torrents"
                /\ torIdx' = torIdx + 1
                /\ cross_seed_torrents' = cross_seed_torrents]_vars

C8_Witness ==
    /\ pc = "torrents"
    /\ torIdx = 4
    /\ cross_seed_torrents.list[3].hash = "c3"
    /\ cross_seed_torrents.list[4].hash = "c4"
    /\ Last(calls).op = "category"
    /\ Last(calls).for = "c3"
    /\ Last(calls).outcome = "ok"
    /\ "c3" \notin DOMAIN cache

(* C9: a torrent that is fresh in the cache when the loop reaches it is    *)
(* passed over: no request is sent, the cache and its file are unchanged.  *)
C9_FreshSkipped ==
    [][(/\ pc = "torrents"
        /\ torIdx <= Len(cross_seed_torrents.list)
        /\ FreshIn(cache, torrent.hash))
          => /\ calls' = calls
             /\ cache' = cache
             /\ file' = file
             /\ pc' = "torrents"
             /\ torIdx' = torIdx + 1]_vars

C9_Witness ==
    /\ pc = "torrents"
    /\ torIdx = 2
    /\ FreshIn(cache, cross_seed_torrents.list[1].hash)
    /\ Last(calls).op = "tag"

UnderBothTags(h) ==
    \A i \in DOMAIN TAG_NAMES : TAG_NAMES[i] \in TorrentOf(h).tags

ProcessedUnder(h, tag) ==
    \E i \in DOMAIN calls :
        calls[i].op = "category" /\ calls[i].for = h /\ calls[i].tag = tag

AppliedUnder(h, tag) ==
    \E i \in DOMAIN calls :
        IsApply(calls[i]) /\ calls[i].for = h /\ calls[i].tag = tag

(* C10: with an expiry window > 0, a torrent listed under both tags gets   *)
(* set-limits requests (or dry-run prints) under at most one tag in a      *)
(* cycle; one for which the first tag's pass found no match is processed   *)
(* again under the second tag.                                             *)
C10_TwoTags ==
    /\ CACHE_EXPIRY_DAYS > 0 =>
          \A i, j \in DOMAIN calls :
              (IsApply(calls[i]) /\ IsApply(calls[j])
                  /\ calls[i].for = calls[j].for) => calls[i].tag = calls[j].tag
    /\ pc = "returned" =>
          \A h \in Hashes :
              (/\ UnderBothTags(h)
               /\ ProcessedUnder(h, TAG_NAMES[1])
               /\ ~AppliedUnder(h, TAG_NAMES[1])
               /\ \E i \in DOMAIN calls : calls[i].op = "tag"
                     /\ calls[i].key = TAG_NAMES[2] /\ calls[i].outcome = "ok")
                  => ProcessedUnder(h, TAG_NAMES[2])

C10_Witness ==
    /\ pc = "returned"
    /\ CACHE_EXPIRY_DAYS > 0
    /\ AppliedUnder("c1", "cross-seed")
    /\ ~ProcessedUnder("c1", "extra")
    /\ ProcessedUnder("c3", "cross-seed")
    /\ ProcessedUnder("c3", "extra")

Malformed(f) ==
    \/ f.kind # "object"
    \/ \E h \in DOMAIN f.json : f.json[h][1] # "iso"

(* C11: whatever the cache file holds (nothing, no JSON, JSON that is no   *)
(* object, an object with a value that is no timestamp), the cycle is not  *)
(* ended by an exception (no request having failed).                       *)
C11_LoadTolerant ==
    (Malformed(file) /\ faults = 0) => pc # "crashed"

(* C12: every set-limits request (or dry-run print) for T is derived from  *)
(* a torrent whose category is the first segment of T's category and whose *)
(* name is T's name, and the category fetched for T is that first segment. *)
C12_SameBaseCategory ==
    \A i \in DOMAIN calls :
        /\ IsApply(calls[i]) =>
              LET T == TorrentOf(calls[i].for)
                  O == TorrentOf(calls[i].orig)
              IN  O.category = <<T.category[1]>> /\ O.name = T.name
        /\ calls[i].op = "category" =>
              calls[i].key = TorrentOf(calls[i].for).category[1]

C12_Witness ==
    /\ pc = "returned"
    /\ \E i \in DOMAIN calls :
          IsApply(calls[i]) /\ calls[i].for = "c1" /\ calls[i].orig = "o1"
    /\ \E i \in DOMAIN calls :
          calls[i].op = "category" /\ calls[i].for = "c3" /\ calls[i].key = "tv"
    /\ \A i \in DOMAIN calls : IsApply(calls[i]) => calls[i].for # "c3"

AppliedInCycle == \E i \in DOMAIN calls : IsApply(calls[i])

(* C13: after a tag's inner loop "No torrents updated" is printed exactly  *)
(* when no torrent was updated under this or an earlier tag of the cycle   *)
(* (calls holds the requests of the current cycle alone).                  *)
C13_CumulativeNotice ==
    [][pc = "tag_end" =>
          IF AppliedInCycle
          THEN notices' = notices
          ELSE notices' = Append(notices, tag_name)]_vars

C13_Witness ==
    /\ pc = "returned"
    /\ cycles >= 2
    /\ notices = <<>>
    /\ \E t \in Hashes : AppliedUnder(t, "cross-seed")
    /\ \A t \in Hashes : ~AppliedUnder(t, "extra")
    /\ \E i \in DOMAIN calls : calls[i].op = "tag" /\ calls[i].key = "extra"
                                  /\ calls[i].outcome = "ok"

(* The step that handles a match with dry-run off: one set-limits request  *)
(* for T with the limit computed from (O.added_on, T.added_on,             *)
(* O.seeding_time_limit) and O's ratio_limit (-1 without one); then, the   *)
(* cache being a dict, T's entry holds the current time.  example is the   *)
(* limit sent for T added at 1000 and O added at 500 with limit 50.        *)
AppliesMatch(example) ==
    (Matching /\ ~DRY_RUN) =>
        LET T == torrent
            O == original_torrent
            seconds == O.added_on + 60 * O.seeding_time_limit - T.added_on
            sent == Last(calls')
        IN  /\ Called
            /\ IsSet(sent)
            /\ sent.key = T.hash
            /\ \E m \in -200 .. 200 :
                  /\ IsRounded(m, seconds)
                  /\ sent.seed_time = IF m <= 0 THEN -1 ELSE m
            /\ sent.ratio = IF O.ratio_limit = <<>> THEN -1
                            ELSE O.ratio_limit[1]
            /\ cache_type = "dict" =>
                  /\ T.hash \in DOMAIN cache'
                  /\ cache'[T.hash] = isoformat(now)
            /\ (T.added_on = 1000 /\ O.added_on = 500
                   /\ O.seeding_time_limit = 50) => sent.seed_time = example

C15_RunOnceOrForever ==
    [][/\ pc = "returned" =>
             pc' = IF SCHEDULE <= 0 THEN "exited" ELSE "sleep"
       /\ pc = "sleep" => (pc' = "login" /\ now' = now + SCHEDULE)
       /\ pc' = "exited" => (pc = "returned" /\ SCHEDULE <= 0)
       /\ pc' = "sleep" => SCHEDULE > 0
       /\ (pc' = "login" /\ pc # "login") =>
             pc \in {"sleep", "exited", "crashed"}]_vars

C15_Witness ==
    /\ pc = "exited"
    /\ SCHEDULE = 0
    /\ cycles = 1
    /\ \E i \in DOMAIN calls : IsApply(calls[i])

Recording(h) == Matching /\ h = torrent.hash

(* C16: no step removes an entry from the cache file or, while the process *)
(* runs, from the cache in memory, and an entry's timestamp changes only   *)
(* in the step that records that torrent.                                  *)
C16_EntriesKept ==
    [][/\ \A h \in DOMAIN file.json :
             /\ h \in DOMAIN file'.json
             /\ file'.json[h] = file.json[h] \/ Recording(h)
       /\ pc \notin {"exited", "crashed"} =>
             \A h \in DOMAIN cache :
                 /\ h \in DOMAIN cache'
                 /\ cache'[h] = cache[h] \/ Recording(h)]_vars

C16_Witness ==
    /\ cycles >= 2
    /\ pc = "returned"
    /\ updated
    /\ "gone" \in DOMAIN file.json
    /\ file.json["gone"] = isoformat(0)
    /\ "gone" \in DOMAIN cache
    /\ cache["gone"] = isoformat(0)
    /\ "c1" \in DOMAIN file.json
    /\ file.json["c1"] = isoformat(now)

InCycle == {"tags", "torrents", "originals", "tag_end", "returned", "sleep"}

(* C17: once a torrent has been recorded in a cycle the file holds exactly *)
(* the cache in memory; until then the cache is what the file held when    *)
(* the cycle started; every torrent a request was made for and recorded in *)
(* this cycle is in the file, also after the cycle stopped.                *)
C17_FileFollowsCache ==
    /\ updated => file = JsonFile(cache)
    /\ (pc \in InCycle /\ ~updated) => cache = read_cache
    /\ \A i \in DOMAIN calls :
          IsApply(calls[i]) => calls[i].for \in DOMAIN file.json

C17_Witness ==
    /\ pc = "crashed"
    /\ updated
    /\ file = JsonFile(cache)
    /\ \E i \in DOMAIN calls : IsApply(calls[i]) /\ calls[i].for = "c1"
    /\ cache["c1"] = isoformat(now)

(* C18: a set-limits request derived from an original whose                *)
(* seeding_time_limit is negative (unlimited) carries the limit -1.        *)
C18_UnlimitedStaysUnlimited ==
    \A i \in DOMAIN calls :
        (IsSet(calls[i]) /\ TorrentOf(calls[i].orig).seeding_time_limit < 0)
            => calls[i].seed_time = -1

(* C19: no set-limits request for T is derived from T's own record.        *)
C19_NeverItself ==
    \A i \in DOMAIN calls : IsSet(calls[i]) => calls[i].orig # calls[i].for

====
